---- MODULE Spec2Model ----
(***************************************************************************)
(* Model of src/app.py: reconciliation of a reference order list with the  *)
(* tables of a chemical analysis (parse_structured_name,                    *)
(* normalize_surface_name, parse_chemical_tables_improved, find_best_match, *)
(* match_samples_improved and the matching loop of main).                   *)
(*                                                                         *)
(* Text is modelled character by character: a Python str is a sequence of  *)
(* one-character strings.  The module is written in ASCII, so every        *)
(* Cyrillic letter of the source is written as one Latin letter of the     *)
(* same case:                                                              *)
(*    a=а  b=б  v=в  g=г  d=д  i=и  k=к  l=л  m=м  n=н  p=п  r=р  s=с       *)
(*    t=т  u=у  w=ш  e=э  o=о  j=е  q=я   (A=А ... Q=Я for the capitals)    *)
(* so that <<"K","P","P"," ","V","D">> is the text 'КПП ВД'.                *)
(* Python's None is the value None below.                                   *)
(***************************************************************************)
EXTENDS Integers, Sequences, FiniteSets, TLC

VARIABLES
    correct_samples,      \* main: the parsed reference list (parse_correct_order)
    chemical_tables,      \* main: the categories, each [grade, samples]
    cat,                  \* main: index of the category being matched
    pc,                   \* position: "pass1", "pass2", "sort", "returned", "done", or a text-spec position
    i,                    \* match_samples_improved: index of the analysis sample of the running pass
    matched,              \* match_samples_improved: the list `matched`
    used_correct_indices, \* match_samples_improved: the set of used 'order' values
    all_matched_samples,  \* main: results of every category, concatenated
    final_tables,         \* main: the output tables, a sequence of [grade, rows]
    text,                 \* the text handed to a pure function (parser, normalizer)
    out,                  \* the result of the pure function
    out2,                 \* the result of applying the normalizer to its own result
    lines,                \* parse_chemical_tables_improved: the lines of the measurement text
    ln,                   \* parse_chemical_tables_improved: index of the next line
    tables,               \* parse_chemical_tables_improved: the dict `tables`, a sequence of [grade, samples]
    current_steel_grade,  \* parse_chemical_tables_improved
    current_table,        \* parse_chemical_tables_improved
    log                   \* history of the matching steps: what each step saw and decided

vars == <<correct_samples, chemical_tables, cat, pc, i, matched, used_correct_indices,
          all_matched_samples, final_tables, text, out, out2,
          lines, ln, tables, current_steel_grade, current_table, log>>

matchVars == <<correct_samples, chemical_tables, cat, i, matched, used_correct_indices,
               all_matched_samples, final_tables, log>>
textVars == <<text, out, out2>>
ingestVars == <<lines, ln, tables, current_steel_grade, current_table>>

-----------------------------------------------------------------------------
(* Characters *)

CyrLower == {"a","b","v","g","d","i","k","l","m","n","p","r","s","t","u","w","e","o","j","q"}
CyrUpper == {"A","B","V","G","D","I","K","L","M","N","P","R","S","T","U","W","E","O","J","Q"}
Cyr == CyrLower \cup CyrUpper
Digit == {"0","1","2","3","4","5","6","7","8","9"}
Space == {" "}
Punct == {",", "-", "(", ")", ":", "#"}
AnyChar == Cyr \cup Digit \cup Space \cup Punct
NonSpace == AnyChar \ Space
NonDigit == AnyChar \ Digit

CasePairs ==
    { <<"a","A">>, <<"b","B">>, <<"v","V">>, <<"g","G">>, <<"d","D">>, <<"i","I">>,
      <<"k","K">>, <<"l","L">>, <<"m","M">>, <<"n","N">>, <<"p","P">>, <<"r","R">>,
      <<"s","S">>, <<"t","T">>, <<"u","U">>, <<"w","W">>, <<"e","E">>, <<"o","O">>,
      <<"j","J">>, <<"q","Q">> }

LowerChar(c) == IF c \in CyrUpper THEN (CHOOSE p \in CasePairs : p[2] = c)[1] ELSE c
UpperChar(c) == IF c \in CyrLower THEN (CHOOSE p \in CasePairs : p[1] = c)[2] ELSE c

None == <<"None">>
Truthy(x) == x # None /\ x # <<>>

-----------------------------------------------------------------------------
(* str methods *)

Lower(s) == [j \in 1..Len(s) |-> LowerChar(s[j])]
Upper(s) == [j \in 1..Len(s) |-> UpperChar(s[j])]

\* str.title(): a cased character is upper-cased after an uncased one (or at
\* the start) and lower-cased after a cased one
Title(s) ==
    [j \in 1..Len(s) |->
        IF j = 1 \/ s[j-1] \notin Cyr THEN UpperChar(s[j]) ELSE LowerChar(s[j])]

\* str.strip()
Strip(s) ==
    LET idx == {j \in 1..Len(s) : s[j] \notin Space}
    IN IF idx = {} THEN <<>>
       ELSE SubSeq(s, CHOOSE j \in idx : \A k \in idx : j <= k,
                      CHOOSE j \in idx : \A k \in idx : j >= k)

\* a in b
Contains(b, a) ==
    \E j \in 0..(Len(b) - Len(a)) : SubSeq(b, j + 1, j + Len(a)) = a

\* re.sub(r'\s+', ' ', s)
RECURSIVE CollapseSpaces(_)
CollapseSpaces(s) ==
    IF s = <<>> THEN <<>>
    ELSE IF Head(s) \in Space
         THEN IF Len(s) > 1 /\ s[2] \in Space
              THEN CollapseSpaces(Tail(s))
              ELSE <<" ">> \o CollapseSpaces(Tail(s))
         ELSE <<Head(s)>> \o CollapseSpaces(Tail(s))

\* str.split(): the whitespace-separated words
RECURSIVE Split(_)
Split(s) ==
    LET t == Strip(s)
    IN IF t = <<>> THEN <<>>
       ELSE LET sp == {j \in 1..Len(t) : t[j] \in Space}
            IN IF sp = {} THEN <<t>>
               ELSE LET f == CHOOSE j \in sp : \A k \in sp : j <= k
                    IN <<SubSeq(t, 1, f - 1)>> \o Split(SubSeq(t, f + 1, Len(t)))

-----------------------------------------------------------------------------
(* Regular expressions of the source.  A pattern is a sequence of elements, *)
(* each a character class repeated: exactly `min` times, or `min` or more   *)
(* times when `many`; `lazy` elements try the shortest repetition first.    *)
(* The matcher backtracks the way Python's re does.                         *)

One(S) == [cls |-> S, min |-> 1, many |-> FALSE, lazy |-> FALSE]
Times(S, n) == [cls |-> S, min |-> n, many |-> FALSE, lazy |-> FALSE]
Plus(S) == [cls |-> S, min |-> 1, many |-> TRUE, lazy |-> FALSE]
Star(S) == [cls |-> S, min |-> 0, many |-> TRUE, lazy |-> FALSE]
PlusLazy(S) == [cls |-> S, min |-> 1, many |-> TRUE, lazy |-> TRUE]
Lit(w) == [j \in 1..Len(w) |-> One({w[j]})]

Fail == <<-1>>
NoMatch == [start |-> -1, ends |-> <<>>]

\* the length of the longest run of characters of cls in s after offset pos
RunLen(cls, s, pos) ==
    CHOOSE n \in 0..(Len(s) - pos) :
        /\ \A j \in 1..n : s[pos + j] \in cls
        /\ (n = Len(s) - pos \/ s[pos + n + 1] \notin cls)

RECURSIVE MatchFrom(_, _, _, _, _), TryRun(_, _, _, _, _, _),
          TryCount(_, _, _, _, _, _, _, _), Continue(_, _, _, _, _, _, _, _, _)
\* the end offsets of elements k.. of pat matched at offset pos of s, or Fail;
\* atEnd is the pattern's trailing $
MatchFrom(pat, k, s, pos, atEnd) ==
    IF k > Len(pat)
    THEN IF atEnd /\ pos # Len(s) THEN Fail ELSE <<>>
    ELSE TryRun(pat, k, s, pos, atEnd, RunLen(pat[k].cls, s, pos))

\* element k can repeat at most `run` times at pos: greedy elements try the
\* longest repetition first, lazy ones the shortest
TryRun(pat, k, s, pos, atEnd, run) ==
    IF run < pat[k].min THEN Fail
    ELSE IF ~pat[k].many THEN TryCount(pat, k, s, pos, atEnd, pat[k].min, pat[k].min, 1)
    ELSE IF pat[k].lazy THEN TryCount(pat, k, s, pos, atEnd, pat[k].min, run, 1)
    ELSE TryCount(pat, k, s, pos, atEnd, run, pat[k].min, -1)

TryCount(pat, k, s, pos, atEnd, c, last, step) ==
    Continue(pat, k, s, pos, atEnd, c, last, step, MatchFrom(pat, k + 1, s, pos + c, atEnd))

Continue(pat, k, s, pos, atEnd, c, last, step, rest) ==
    IF rest # Fail THEN <<pos + c>> \o rest
    ELSE IF c = last THEN Fail
    ELSE TryCount(pat, k, s, pos, atEnd, c + step, last, step)

\* the least element of a set of numbers, -1 when it is empty
MinOf(S) == IF S = {} THEN -1 ELSE CHOOSE q \in S : \A r \in S : q <= r

MatchAt(pat, s, atEnd, p) ==
    IF p = -1 THEN NoMatch ELSE [start |-> p, ends |-> MatchFrom(pat, 1, s, p, atEnd)]

\* re.search(pat, s): the leftmost match
Search(pat, s, atEnd) ==
    MatchAt(pat, s, atEnd, MinOf({p \in 0..Len(s) : MatchFrom(pat, 1, s, p, atEnd) # Fail}))

\* re.match(pat, s): a match at the start of s
MatchAtStart(pat, s) == MatchFrom(pat, 1, s, 0, FALSE) # Fail

\* the text matched by element k of the pattern
ElemText(m, s, k) ==
    SubSeq(s, (IF k = 1 THEN m.start ELSE m.ends[k - 1]) + 1, m.ends[k])

-----------------------------------------------------------------------------
(* parse_structured_name *)

NameSurfaceClass == Cyr \cup Space \cup {"-"}

\* r'([а-яА-Я\s-]+)\((\d+),\s*([а-яА-Я])\)'   groups: elements 1, 3, 6
patterns_correct ==
    << <<Plus(NameSurfaceClass), One({"("}), Plus(Digit), One({","}),
         Star(Space), One(Cyr), One({")"})>> >>

\* the ordered analysis patterns; `grp` names the elements that are the
\* pattern's groups 1 and 2, `atEnd` its trailing $
patterns_analysis ==
    << \* r'([а-яА-Я]{2})\s+([а-яА-Я]+)\s+(\d+)'
       [pat |-> <<Times(Cyr, 2), Plus(Space), Plus(Cyr), Plus(Space), Plus(Digit)>>,
        grp |-> <<1, 3>>, atEnd |-> FALSE],
       \* r'([а-яА-Я\s-]+)\s+(\d+)[,\s]+\S*\s*(\d+)'
       [pat |-> <<Plus(NameSurfaceClass), Plus(Space), Plus(Digit),
                  Plus(Space \cup {","}), Star(NonSpace), Star(Space), Plus(Digit)>>,
        grp |-> <<1, 3>>, atEnd |-> FALSE],
       \* r'([а-яА-Я\s-]+?)\s+\d+[,\s]+\S*\s*(\d+)'
       [pat |-> <<PlusLazy(NameSurfaceClass), Plus(Space), Plus(Digit),
                  Plus(Space \cup {","}), Star(NonSpace), Star(Space), Plus(Digit)>>,
        grp |-> <<1, 7>>, atEnd |-> FALSE],
       \* r'(.+?)\s+(\d+)$'
       [pat |-> <<PlusLazy(AnyChar), Plus(Space), Plus(Digit)>>,
        grp |-> <<1, 3>>, atEnd |-> TRUE] >>

\* the second loop of parse_structured_name, from pattern k on
RECURSIVE ParseAnalysis(_, _), AnalysisResult(_, _, _)
ParseAnalysis(normalized, k) ==
    IF k > Len(patterns_analysis)
    THEN [surface |-> normalized, number |-> None, letter |-> None,
          original |-> normalized, type |-> "unknown"]
    ELSE AnalysisResult(normalized, k,
                        Search(patterns_analysis[k].pat, normalized, patterns_analysis[k].atEnd))

\* `if match:` in the second loop, m the match of pattern k
AnalysisResult(normalized, k, m) ==
    IF m # NoMatch
    THEN [surface |-> Strip(ElemText(m, normalized, patterns_analysis[k].grp[1])),
          number |-> ElemText(m, normalized, patterns_analysis[k].grp[2]),
          letter |-> None,
          original |-> normalized, type |-> "analysis"]
    ELSE ParseAnalysis(normalized, k + 1)

\* `if match:` in the first loop, m the match of the structured pattern
StructuredResult(normalized, m) ==
    IF m # NoMatch
    THEN [surface |-> Strip(ElemText(m, normalized, 1)),
          number |-> ElemText(m, normalized, 3),
          letter |-> Upper(ElemText(m, normalized, 6)),
          original |-> normalized, type |-> "structured"]
    ELSE ParseAnalysis(normalized, 1)

ParseNormalized(normalized) ==
    StructuredResult(normalized, Search(patterns_correct[1], normalized, FALSE))

parse_structured_name(name) == ParseNormalized(Strip(name))

-----------------------------------------------------------------------------
(* normalize_surface_name *)

\* the dict surface_mappings, in insertion order
surface_mappings ==
    << [pat |-> Lit(<<"k","p","p">>) \o <<Star(Space)>> \o Lit(<<"v","d">>),
        standard |-> <<"K","P","P"," ","V","D">>],
       [pat |-> Lit(<<"k","p","p">>) \o <<Star(Space)>> \o Lit(<<"n","d","-","1">>),
        standard |-> <<"K","P","P"," ","N","D","-","1">>],
       [pat |-> Lit(<<"k","p","p">>) \o <<Star(Space)>> \o Lit(<<"n","d","-","2">>),
        standard |-> <<"K","P","P"," ","N","D","-","2">>],
       [pat |-> Lit(<<"k","p","p">>) \o <<Star(Space)>> \o Lit(<<"n","d">>),
        standard |-> <<"K","P","P"," ","N","D">>],
       [pat |-> Lit(<<"w","p","p">>), standard |-> <<"W","P","P">>],
       [pat |-> Lit(<<"e","p","k">>), standard |-> <<"E","P","K">>],
       [pat |-> Lit(<<"p","s">>) \o <<Star(Space)>> \o Lit(<<"k","w">>),
        standard |-> <<"P","S"," ","K","W">>] >>

\* the first entry of surface_mappings whose pattern is found in normalized, -1 for none
FirstMapping(normalized) ==
    MinOf({k \in 1..Len(surface_mappings) :
              Search(surface_mappings[k].pat, normalized, FALSE) # NoMatch})

\* the value returned for the mapping hit (-1: no mapping, the title-cased text)
Standardize(normalized, hit) ==
    IF hit # -1 THEN surface_mappings[hit].standard ELSE Title(normalized)

Canonical(normalized) == Standardize(normalized, FirstMapping(normalized))

\* mutant: the text is not lower-cased before the mappings are tried
normalize_surface_name_cased(surface) == Canonical(CollapseSpaces(Strip(surface)))

normalize_surface_name(surface) == Canonical(CollapseSpaces(Lower(Strip(surface))))

-----------------------------------------------------------------------------
(* find_best_match *)

\* the additive score of one (analysis sample, correct sample) pair
\* mutant: `if` for `elif`, equal surfaces score as a substring too
SurfaceScoreBoth(analysis_surface, correct_surface) ==
      (IF analysis_surface = correct_surface THEN 100 ELSE 0)
    + (IF Contains(correct_surface, analysis_surface)
          \/ Contains(analysis_surface, correct_surface) THEN 50 ELSE 0)

SurfaceScore(analysis_surface, correct_surface) ==
    IF analysis_surface = correct_surface THEN 100
    ELSE IF Contains(correct_surface, analysis_surface)
            \/ Contains(analysis_surface, correct_surface) THEN 50
    ELSE 0

NumberScore(analysis_number, correct_number) ==
    IF Truthy(analysis_number) /\ Truthy(correct_number)
    THEN (IF analysis_number = correct_number THEN 50 ELSE 0)
       + (IF Contains(correct_number, analysis_number) THEN 10 ELSE 0)
       + (IF Contains(analysis_number, correct_number) THEN 10 ELSE 0)
    ELSE 0

LetterScore(analysis_letter, correct_letter) ==
    IF Truthy(analysis_letter) /\ Truthy(correct_letter) /\ analysis_letter = correct_letter
    THEN 25 ELSE 0

Score(analysis_parsed, correct_parsed) ==
      SurfaceScore(normalize_surface_name(analysis_parsed.surface),
                   normalize_surface_name(correct_parsed.surface))
    + NumberScore(analysis_parsed.number, correct_parsed.number)
    + LetterScore(analysis_parsed.letter, correct_parsed.letter)

\* mutant: `>=`, the last of the best-scoring samples is kept
BetterOrEqual(score, best_score) == score >= best_score

\* `if score > best_score`
Better(score, best_score) == score > best_score

\* the loop over correct_samples from index k on; best_match is an index into
\* correct_samples, 0 for None
RECURSIVE BestLoop(_, _, _, _, _), BestUpdate(_, _, _, _, _, _)
BestLoop(analysis_sample, cs, k, best_match, best_score) ==
    IF k > Len(cs) THEN <<best_match, best_score>>
    ELSE BestUpdate(analysis_sample, cs, k, best_match, best_score,
                    Score(analysis_sample.parsed, cs[k].parsed))

BestUpdate(analysis_sample, cs, k, best_match, best_score, score) ==
    IF Better(score, best_score)
    THEN BestLoop(analysis_sample, cs, k + 1, k, score)
    ELSE BestLoop(analysis_sample, cs, k + 1, best_match, best_score)

\* mutant: the threshold of an exact surface match
AcceptableExact(best_score) == best_score >= 100

\* `return best_match if best_score >= 50 else None`
Acceptable(best_score) == best_score >= 50

\* the index in cs of the returned correct sample, 0 for None
BestResult(r) == IF Acceptable(r[2]) THEN r[1] ELSE 0

find_best_match(analysis_sample, cs) == BestResult(BestLoop(analysis_sample, cs, 1, 0, 0))

-----------------------------------------------------------------------------
(* match_samples_improved *)

\* the dict appended to `matched`
MatchRecord(analysis_sample, correct_sample, quality) ==
    [correct_name |-> correct_sample.correct_name,
     original_name |-> analysis_sample.original_name,
     measurements |-> analysis_sample.measurements,
     order |-> correct_sample.order,
     match_quality |-> quality,
     analysis_surface |-> analysis_sample.parsed.surface,
     correct_surface |-> correct_sample.parsed.surface,
     analysis_number |-> analysis_sample.parsed.number,
     correct_number |-> correct_sample.parsed.number]

samples == chemical_tables[cat].samples

\* the label given to the matches of the first pass
Pass1Quality == "exact"

\* mutant: the first pass does not look at used_correct_indices
Pass1AssignsAnyway(b, used) == b # 0

\* `best_match and best_match['order'] not in used_correct_indices`
Pass1Assigns(b, used) == b # 0 /\ correct_samples[b].order \notin used

\* one iteration of the first loop
\* the scores the loop of find_best_match computes, one per correct sample
AllScores(analysis_sample, cs) ==
    [k \in 1..Len(cs) |-> Score(analysis_sample.parsed, cs[k].parsed)]

\* the correct sample the first loop appends for sample i, 0 for none
Pass1Choice(b, used) == IF Pass1Assigns(b, used) THEN b ELSE 0

\* the effect of one iteration of either loop: c the correct sample taken, 0 for none
Take(c, quality, pass, skip, scores) ==
    /\ matched' = IF c # 0
                  THEN Append(matched, MatchRecord(samples[i], correct_samples[c], quality))
                  ELSE matched
    /\ used_correct_indices' = IF c # 0
                               THEN used_correct_indices \cup {correct_samples[c].order}
                               ELSE used_correct_indices
    /\ log' = Append(log, [cat |-> cat, pass |-> pass, sample |-> i, skipped |-> skip,
                           ref |-> c, used |-> used_correct_indices, scores |-> scores])

Pass1Step ==
    /\ pc = "pass1"
    /\ Take(Pass1Choice(find_best_match(samples[i], correct_samples), used_correct_indices),
            Pass1Quality, 1, FALSE, AllScores(samples[i], correct_samples))
    /\ IF i < Len(samples)
       THEN i' = i + 1 /\ pc' = pc
       ELSE i' = 1 /\ pc' = "pass2"
    /\ UNCHANGED <<correct_samples, chemical_tables, cat, all_matched_samples, final_tables>>
    /\ UNCHANGED <<textVars, ingestVars>>

\* mutant: the second pass does not skip the samples matched already
AlreadyMatchedNever(analysis_sample, m) == FALSE

\* `any(m['original_name'] == analysis_sample['original_name'] for m in matched)`
AlreadyMatched(analysis_sample, m) ==
    \E k \in 1..Len(m) : m[k].original_name = analysis_sample.original_name

\* any(word in b for word in words)
AnyWordIn(words, b) == \E w \in 1..Len(words) : Contains(b, words[w])

surface_match(analysis_surface, correct_surface) ==
    \/ Contains(correct_surface, analysis_surface)
    \/ Contains(analysis_surface, correct_surface)
    \/ AnyWordIn(Split(analysis_surface), correct_surface)
    \/ AnyWordIn(Split(correct_surface), analysis_surface)

number_match(analysis_number, correct_number) ==
    /\ Truthy(analysis_number)
    /\ Truthy(correct_number)
    /\ (Contains(correct_number, analysis_number) \/ Contains(analysis_number, correct_number))

\* the condition under which the inner loop of the second pass takes correct sample k
Pass2Eligible(analysis_sample, k, used) ==
    /\ correct_samples[k].order \notin used
    /\ surface_match(normalize_surface_name(analysis_sample.parsed.surface),
                     normalize_surface_name(correct_samples[k].parsed.surface))
    /\ number_match(analysis_sample.parsed.number, correct_samples[k].parsed.number)

\* the correct sample at which the inner loop breaks, 0 when it runs to the end
\* or the sample is skipped
Pass2Choice(analysis_sample, used, skip) ==
    IF skip THEN 0
    ELSE IF \A k \in 1..Len(correct_samples) : ~Pass2Eligible(analysis_sample, k, used) THEN 0
    ELSE MinOf({k \in 1..Len(correct_samples) : Pass2Eligible(analysis_sample, k, used)})

\* one iteration of the second loop
Pass2Step ==
    /\ pc = "pass2"
    /\ Take(Pass2Choice(samples[i], used_correct_indices, AlreadyMatched(samples[i], matched)),
            "partial", 2, AlreadyMatched(samples[i], matched), <<>>)
    /\ IF i < Len(samples)
       THEN i' = i + 1 /\ pc' = pc
       ELSE i' = 1 /\ pc' = "sort"
    /\ UNCHANGED <<correct_samples, chemical_tables, cat, all_matched_samples, final_tables>>
    /\ UNCHANGED <<textVars, ingestVars>>

\* list.sort(key=order): a stable insertion sort
RECURSIVE InsertByOrder(_, _)
InsertByOrder(sorted, x) ==
    IF sorted = <<>> THEN <<x>>
    ELSE IF x.order < Head(sorted).order THEN <<x>> \o sorted
    ELSE <<Head(sorted)>> \o InsertByOrder(Tail(sorted), x)

RECURSIVE SortLoop(_, _)
SortLoop(sorted, rest) ==
    IF rest = <<>> THEN sorted ELSE SortLoop(InsertByOrder(sorted, Head(rest)), Tail(rest))

\* mutant: the list is returned in the order of the appends
SortByOrderSkipped(m) == m

SortByOrder(m) == SortLoop(<<>>, m)

\* `matched.sort(key=lambda x: x['order'])` and `return matched`
SortReturn ==
    /\ pc = "sort"
    /\ matched' = SortByOrder(matched)
    /\ pc' = "returned"
    /\ UNCHANGED <<correct_samples, chemical_tables, cat, i, used_correct_indices,
                   all_matched_samples, final_tables, log>>
    /\ UNCHANGED <<textVars, ingestVars>>

-----------------------------------------------------------------------------
(* main: the matching loop over chemical_tables *)

\* `final_tables[steel_grade] = pd.DataFrame(data, columns=columns)`: the rows
\* [i + 1, correct_name] + measurements
TableRows(matched_samples) ==
    [k \in 1..Len(matched_samples) |->
        [no |-> k, name |-> matched_samples[k].correct_name,
         measurements |-> matched_samples[k].measurements]]

\* pd.DataFrame raises when a row holds more values than there are columns
TooWide(matched_samples) ==
    \E k \in 1..Len(matched_samples) :
        Len(matched_samples[k].measurements) > Len(matched_samples[1].measurements)

\* the body of `for steel_grade, samples in chemical_tables.items()` after the
\* call of match_samples_improved has returned, and the step to the next category
MainCollect ==
    /\ pc = "returned"
    /\ all_matched_samples' = all_matched_samples \o matched
    /\ IF matched # <<>> /\ matched[1].measurements # <<>>
       THEN IF TooWide(matched)
            THEN /\ final_tables' = final_tables
                 /\ pc' = "error"
                 /\ UNCHANGED <<cat, i, matched, used_correct_indices>>
            ELSE /\ final_tables' = Append(final_tables,
                                           [grade |-> chemical_tables[cat].grade,
                                            rows |-> TableRows(matched)])
                 /\ IF cat < Len(chemical_tables)
                    THEN /\ cat' = cat + 1
                         /\ pc' = "pass1"
                         /\ i' = 1
                         /\ matched' = <<>>
                         /\ used_correct_indices' = {}
                    ELSE /\ pc' = "done"
                         /\ UNCHANGED <<cat, i, matched, used_correct_indices>>
       ELSE /\ final_tables' = final_tables
            /\ IF cat < Len(chemical_tables)
               THEN /\ cat' = cat + 1
                    /\ pc' = "pass1"
                    /\ i' = 1
                    /\ matched' = <<>>
                    /\ used_correct_indices' = {}
               ELSE /\ pc' = "done"
                    /\ UNCHANGED <<cat, i, matched, used_correct_indices>>
    /\ UNCHANGED <<correct_samples, chemical_tables, log>>
    /\ UNCHANGED <<textVars, ingestVars>>

\* `total_analysis`, `total_matched` of the statistics
RECURSIVE SumSamples(_)
SumSamples(k) == IF k = 0 THEN 0 ELSE Len(chemical_tables[k].samples) + SumSamples(k - 1)
total_analysis == SumSamples(Len(chemical_tables))
total_matched == Len(all_matched_samples)

-----------------------------------------------------------------------------
(* Inputs *)

MaxRefs == 2
MaxSamples == 2
MaxCats == 2

\* one entry of parse_correct_order's result, from a reference line '<number> <name>'
CorrectSample(line) ==
    [order |-> line.number, correct_name |-> Strip(line.name),
     parsed |-> parse_structured_name(Strip(line.name))]

\* parse_correct_order keeps the lines in the order of the text
parse_correct_order(reflines) == [k \in 1..Len(reflines) |-> CorrectSample(reflines[k])]

\* one entry of a table of parse_chemical_tables_improved
AnalysisSample(sample_name, measurements) ==
    [original_name |-> sample_name, measurements |-> measurements,
     parsed |-> parse_structured_name(sample_name)]

Val1 == <<"1", ",", "2">>

\* reference lines: 1 ЭПК(5,А) / 2 ЭПК(15,А) / 1 ЭПК(25,А) / 2 ШПП(5,Б) / 3 труба(50,А)
RefLines ==
    { [number |-> 1, name |-> <<"E","P","K","(","5",",","A",")">>],
      [number |-> 2, name |-> <<"E","P","K","(","1","5",",","A",")">>],
      [number |-> 1, name |-> <<"E","P","K","(","2","5",",","A",")">>],
      [number |-> 2, name |-> <<"W","P","P","(","5",",","B",")">>],
      [number |-> 3, name |-> <<"t","r","u","b","a","(","5","0",",","A",")">>] }

\* measurement rows: ЭПК 5 / ЭПК(5,А) / труба 5 / Эпк 5 / ЭПК 2, труба 50
Rows ==
    { AnalysisSample(<<"E","P","K"," ","5">>, <<Val1>>),
      AnalysisSample(<<"E","P","K","(","5",",","A",")">>, <<Val1>>),
      AnalysisSample(<<"t","r","u","b","a"," ","5">>, <<Val1>>),
      AnalysisSample(<<"E","p","k"," ","5">>, <<>>),
      AnalysisSample(<<"E","P","K"," ","2",","," ","t","r","u","b","a"," ","5","0">>, <<Val1>>) }

\* the smaller pools of the runs over several categories
RefLinesMain ==
    { [number |-> 1, name |-> <<"E","P","K","(","5",",","A",")">>],
      [number |-> 2, name |-> <<"E","P","K","(","1","5",",","A",")">>] }

RowsMain ==
    { AnalysisSample(<<"E","P","K"," ","5">>, <<Val1>>),
      AnalysisSample(<<"E","p","k"," ","5">>, <<>>) }

SeqsUpTo(S, n) == UNION {[1..m -> S] : m \in 1..n}

IdleText == text = <<>> /\ out = None /\ out2 = None
IdleIngest ==
    /\ lines = <<>> /\ ln = 0 /\ tables = <<>>
    /\ current_steel_grade = None /\ current_table = <<>>

InitMatch(refPool, rowPool, cats) ==
    /\ correct_samples \in {parse_correct_order(rl) : rl \in SeqsUpTo(refPool, MaxRefs)}
    /\ chemical_tables \in
          {[k \in 1..Len(tabs) |-> [grade |-> k, samples |-> tabs[k]]] :
              tabs \in UNION {[1..c -> SeqsUpTo(rowPool, MaxSamples)] : c \in cats}}
    /\ cat = 1
    /\ pc = "pass1"
    /\ i = 1
    /\ matched = <<>>
    /\ used_correct_indices = {}
    /\ all_matched_samples = <<>>
    /\ final_tables = <<>>
    /\ log = <<>>
    /\ IdleText
    /\ IdleIngest

\* one call of match_samples_improved
Init == InitMatch(RefLines, Rows, {1})
Next == Pass1Step \/ Pass2Step \/ SortReturn
Spec == Init /\ [][Next]_vars

\* main's loop over the categories
InitMain == InitMatch(RefLinesMain, RowsMain, 1..MaxCats)
NextMain == Pass1Step \/ Pass2Step \/ SortReturn \/ MainCollect
SpecMain == InitMain /\ [][NextMain]_vars

\* one call on names whose surfaces are made of several words:
\* 1 ЭПК(5,А) / 2 ЭПК(15,А) / 3 б труба(15,А) against ЭПК 5 / а труба 5
RefLinesPass2 ==
    { [number |-> 1, name |-> <<"E","P","K","(","5",",","A",")">>],
      [number |-> 2, name |-> <<"E","P","K","(","1","5",",","A",")">>],
      [number |-> 3, name |-> <<"b"," ","t","r","u","b","a","(","1","5",",","A",")">>] }

RowsPass2 ==
    { AnalysisSample(<<"E","P","K"," ","5">>, <<Val1>>),
      AnalysisSample(<<"a"," ","t","r","u","b","a"," ","5">>, <<Val1>>) }

InitPass2 == InitMatch(RefLinesPass2, RowsPass2, {1})
SpecPass2 == InitPass2 /\ [][Next]_vars

-----------------------------------------------------------------------------
(* parse_chemical_tables_improved *)

\* r'Марка стали:\s*([^\n]+)' with re.IGNORECASE; group 1 is the last element
IgnoreCase(w) == [j \in 1..Len(w) |-> One({LowerChar(w[j]), UpperChar(w[j])})]
steel_pattern ==
    IgnoreCase(<<"m","a","r","k","a"," ","s","t","a","l","i",":">>)
        \o <<Star(Space), Plus(AnyChar)>>

\* the markers of the technical lines: 'Требования ТУ', '14-3Р-55-2001', '---', '###'
skip_markers ==
    { <<"T","r","j","b","o","v","a","n","i","q"," ","T","U">>,
      <<"1","4","-","3","R","-","5","5","-","2","0","0","1">>,
      <<"-","-","-">>,
      <<"#","#","#">> }

\* r'^\s*\d+\s+[^\d]'
row_pattern == <<Star(Space), Plus(Digit), Plus(Space), One(NonDigit)>>

\* re.split(r'\s{2,}', line) of a stripped line: cut at the first run of two or
\* more spaces and split the rest
RECURSIVE SplitWide(_)
SplitAt(line, cutAt) ==
    IF cutAt = -1 THEN <<line>>
    ELSE <<SubSeq(line, 1, cutAt - 1)>>
            \o SplitWide(SubSeq(line, cutAt + RunLen(Space, line, cutAt - 1), Len(line)))
SplitWide(line) ==
    SplitAt(line, MinOf({j \in 1..(Len(line) - 1) : line[j] \in Space /\ line[j + 1] \in Space}))

IsSteelLine(line) == Search(steel_pattern, line, FALSE) # NoMatch
SteelGrade(line, m) == Strip(ElemText(m, line, Len(steel_pattern)))
IsSkipLine(line) == \E x \in skip_markers : Contains(line, x)
IsRowLine(line) == MatchAtStart(row_pattern, line)

\* `tables[current_steel_grade] = current_table`: a dict keeps the position of a
\* key it already holds and replaces its value
DictSet(d, key, value) ==
    IF \E k \in 1..Len(d) : d[k].grade = key
    THEN [k \in 1..Len(d) |-> IF d[k].grade = key THEN [grade |-> key, samples |-> value] ELSE d[k]]
    ELSE Append(d, [grade |-> key, samples |-> value])

\* the row a data line contributes, parts its fields
RowOf(parts) == AnalysisSample(parts[2], SubSeq(parts, 3, Len(parts)))

\* mutant: a row needs a value besides its name
HasNameAndValue(parts) == Len(parts) >= 3

\* `if len(parts) >= 2`
HasName(parts) == Len(parts) >= 2

line == Strip(lines[ln])

\* a line 'Марка стали: ...'
SteelLine ==
    /\ pc = "ingest"
    /\ ln <= Len(lines)
    /\ IsSteelLine(line)
    /\ IF current_steel_grade # None /\ current_table # <<>>
       THEN /\ tables' = DictSet(tables, current_steel_grade, current_table)
            /\ current_table' = <<>>
       ELSE UNCHANGED <<tables, current_table>>
    /\ current_steel_grade' = SteelGrade(line, Search(steel_pattern, line, FALSE))
    /\ ln' = ln + 1
    /\ UNCHANGED <<lines, pc, textVars, matchVars>>

\* a technical line
SkipLine ==
    /\ pc = "ingest"
    /\ ln <= Len(lines)
    /\ ~IsSteelLine(line)
    /\ IsSkipLine(line)
    /\ ln' = ln + 1
    /\ UNCHANGED <<lines, pc, tables, current_steel_grade, current_table, textVars, matchVars>>

\* a line that passes the test for a sample row
RowLine ==
    /\ pc = "ingest"
    /\ ln <= Len(lines)
    /\ ~IsSteelLine(line)
    /\ ~IsSkipLine(line)
    /\ current_steel_grade # None /\ IsRowLine(line)
    /\ current_table' = IF HasName(SplitWide(line))
                        THEN Append(current_table, RowOf(SplitWide(line)))
                        ELSE current_table
    /\ ln' = ln + 1
    /\ UNCHANGED <<lines, pc, tables, current_steel_grade, textVars, matchVars>>

\* any other line
OtherLine ==
    /\ pc = "ingest"
    /\ ln <= Len(lines)
    /\ ~IsSteelLine(line)
    /\ ~IsSkipLine(line)
    /\ ~(current_steel_grade # None /\ IsRowLine(line))
    /\ ln' = ln + 1
    /\ UNCHANGED <<lines, pc, tables, current_steel_grade, current_table, textVars, matchVars>>

\* after the loop: the last table is added and `tables` returned
IngestReturn ==
    /\ pc = "ingest"
    /\ ln > Len(lines)
    /\ tables' = IF current_steel_grade # None /\ current_table # <<>>
                 THEN DictSet(tables, current_steel_grade, current_table)
                 ELSE tables
    /\ pc' = "ingested"
    /\ UNCHANGED <<lines, ln, current_steel_grade, current_table, textVars, matchVars>>

MaxLines == 4

\* Марка стали: 20 / Марка стали: 12 / 1  ЭПК 5  1,2 / 2  ЭПК 5 / 3 ЭПК 5  1,2 /
\* 4 ЭПК 5 / --- / 5  1,2
Steel20 == <<"M","a","r","k","a"," ","s","t","a","l","i",":"," ","2","0">>
Steel12 == <<"M","a","r","k","a"," ","s","t","a","l","i",":"," ","1","2">>
RowFull == <<"1"," "," ","E","P","K"," ","5"," "," ","1",",","2">>
RowNoValues == <<"2"," "," ","E","P","K"," ","5">>
RowNarrow == <<"3"," ","E","P","K"," ","5"," "," ","1",",","2">>
RowNoFields == <<"4"," ","E","P","K"," ","5">>
Rule == <<"-","-","-">>
RowNoName == <<"5"," "," ","1",",","2">>

TextLines == {Steel20, Steel12, RowFull, RowNoValues, RowNarrow, RowNoFields, Rule, RowNoName}

IdleMatch ==
    /\ correct_samples = <<>> /\ chemical_tables = <<>> /\ cat = 0 /\ i = 0
    /\ matched = <<>> /\ used_correct_indices = {} /\ all_matched_samples = <<>>
    /\ final_tables = <<>> /\ log = <<>>

InitIngest ==
    /\ lines \in SeqsUpTo(TextLines, MaxLines)
    /\ ln = 1
    /\ tables = <<>>
    /\ current_steel_grade = None
    /\ current_table = <<>>
    /\ pc = "ingest"
    /\ IdleText
    /\ IdleMatch
NextIngest == SteelLine \/ SkipLine \/ RowLine \/ OtherLine \/ IngestReturn
SpecIngest == InitIngest /\ [][NextIngest]_vars

-----------------------------------------------------------------------------
(* The pure functions on their own *)

\* identifiers of the shapes the parser's patterns are written for
Surfaces ==
    { <<"E","P","K">>, <<"K","P","P"," ","V","D">>, <<"N","G"," ","W","P","P">>,
      <<"t","r","u","b","a">>, <<"K","P","P"," ","N","D","-","1">> }
Numbers == { <<"2">>, <<"5","0">>, <<"1","3">> }
Truba == <<"t","r","u","b","a">>

StructuredName(s, n) == s \o <<"(">> \o n \o <<",", "A", ")">>
BareName(s, n) == s \o <<" ">> \o n
PairName(s, n, m) == s \o <<" ">> \o n \o <<",", " ">> \o Truba \o <<" ">> \o m
CommaName(s, n, m) == s \o <<" ">> \o n \o <<",">> \o m

ParseNames ==
    Surfaces
    \cup {StructuredName(s, n) : s \in Surfaces, n \in Numbers}
    \cup {BareName(s, n) : s \in Surfaces, n \in Numbers}
    \cup {PairName(s, n, m) : s \in Surfaces, n \in Numbers, m \in Numbers}
    \cup {CommaName(s, n, m) : s \in Surfaces, n \in Numbers, m \in Numbers}

InitParse ==
    /\ text \in ParseNames
    /\ out = None
    /\ out2 = None
    /\ pc = "parse"
    /\ IdleMatch
    /\ IdleIngest

ParseName ==
    /\ pc = "parse"
    /\ out' = parse_structured_name(text)
    /\ pc' = "parsed"
    /\ UNCHANGED <<text, out2, matchVars, ingestVars>>

NextParse == ParseName
SpecParse == InitParse /\ [][NextParse]_vars

\* surface tokens are built from pieces of the known location codes
MaxLen == 8
Pieces ==
    { <<"k","p","p">>, <<" ">>, <<"n","d">>, <<"-","1">>, <<"v","d">>, <<"W","P","P">>,
      <<"p","s">>, <<"k","w">>, <<"t","r">>, <<"E">> }

InitNorm ==
    /\ text = <<>>
    /\ out = None
    /\ out2 = None
    /\ pc = "build"
    /\ IdleMatch
    /\ IdleIngest

AppendPiece ==
    /\ pc = "build"
    /\ \E w \in Pieces :
          /\ Len(text) + Len(w) <= MaxLen
          /\ text' = text \o w
    /\ UNCHANGED <<pc, out, out2, matchVars, ingestVars>>

Normalize ==
    /\ pc = "build"
    /\ out' = normalize_surface_name(text)
    /\ pc' = "normalized"
    /\ UNCHANGED <<text, out2, matchVars, ingestVars>>

Renormalize ==
    /\ pc = "normalized"
    /\ out2' = normalize_surface_name(out)
    /\ pc' = "renormalized"
    /\ UNCHANGED <<text, out, matchVars, ingestVars>>

NextNorm == AppendPiece \/ Normalize \/ Renormalize
SpecNorm == InitNorm /\ [][NextNorm]_vars

-----------------------------------------------------------------------------
(* Properties of the matching *)

\* the steps of the log that took a correct sample
Hits == {k \in 1..Len(log) : log[k].ref # 0}
Pass1Entries == {k \in 1..Len(log) : log[k].pass = 1}

\* the analysis sample and the correct sample of step k of the log
SampleOf(k) == chemical_tables[log[k].cat].samples[log[k].sample]
RefOf(k) == correct_samples[log[k].ref]

\* C1 as claimed: in one run (every category matched against the one reference
\* list, the results concatenated) no two match results carry the same 'order'
C1_RunInjective ==
    \A a, b \in 1..Len(all_matched_samples) :
        a # b => all_matched_samples[a].order # all_matched_samples[b].order

\* C1 amended: within one call of match_samples_improved (one category) no two
\* match results carry the same 'order'
C1_CallInjective ==
    \A a, b \in 1..Len(matched) : a # b => matched[a].order # matched[b].order

\* C1 witness: the second category's call has returned two results, and one
\* of them carries an 'order' a result of the first category carries too
C1_Witness ==
    /\ pc = "returned"
    /\ cat = 2
    /\ Len(matched) = 2
    /\ \E a \in 1..Len(all_matched_samples) : all_matched_samples[a].order = matched[1].order

\* C2: when match_samples_improved returns, the steps that took a correct sample
\* are one per match result, no analysis sample and no correct sample is taken
\* by two of them, each result carries the names of its pair, and the samples
\* never taken (the unmatched measurements) make up the rest of the input
UnmatchedSamples == (1..Len(samples)) \ {log[k].sample : k \in Hits}
UnmatchedRefs == (1..Len(correct_samples)) \ {log[k].ref : k \in Hits}
C3_StrictlyIncreasing ==
    pc = "returned" =>
        \A k \in 1..(Len(matched) - 1) : matched[k].order < matched[k + 1].order

\* C3 witness: a call has returned two results which were appended in
\* decreasing 'order'
C3_Witness ==
    /\ pc = "returned"
    /\ Len(matched) = 2
    /\ \E a, b \in Hits : a < b /\ RefOf(a).order > RefOf(b).order

\* C4 as claimed: a match result is labelled 'exact' exactly when the canonical
\* surfaces of its two entries are equal, and 'partial' otherwise
C4_ExactIffSameSurface ==
    \A k \in 1..Len(matched) :
        /\ matched[k].match_quality \in {"exact", "partial"}
        /\ matched[k].match_quality = "exact"
              <=> normalize_surface_name(matched[k].analysis_surface)
                    = normalize_surface_name(matched[k].correct_surface)

\* C5 as claimed: every score find_best_match computes lies in 0..185
C5_ScoreAtMost185 ==
    \A k \in Pass1Entries : \A r \in 1..Len(log[k].scores) :
        log[k].scores[r] >= 0 /\ log[k].scores[r] <= 185

\* C5 amended: every score find_best_match computes lies in 0..195
C5_ScoreAtMost195 ==
    \A k \in Pass1Entries : \A r \in 1..Len(log[k].scores) :
        log[k].scores[r] >= 0 /\ log[k].scores[r] <= 195

\* C5 witness: find_best_match has computed the score 195
C5_Witness ==
    \E k \in Pass1Entries : \E r \in 1..Len(log[k].scores) : log[k].scores[r] = 195

\* the best of the scores computed at step k among the correct samples of the set R
MaxScore(k, R) ==
    CHOOSE v \in {log[k].scores[r] : r \in R} : \A r \in R : log[k].scores[r] <= v
\* the correct samples not used when step k of the log was taken
UnusedAt(k) == {r \in 1..Len(correct_samples) : correct_samples[r].order \notin log[k].used}
AllRefs == 1..Len(correct_samples)

\* C9 as claimed: whenever the best score of a sample among the correct samples
\* not yet used is at least 50, the first pass assigns the sample to a
\* best-scoring unused correct sample
C9_BestUnused ==
    \A k \in Pass1Entries :
        (UnusedAt(k) # {} /\ MaxScore(k, UnusedAt(k)) >= 50) =>
            /\ log[k].ref \in UnusedAt(k)
            /\ log[k].scores[log[k].ref] = MaxScore(k, UnusedAt(k))

\* the correct samples with the best score of step k, and the first of them
\* in list order
BestRefs(k) == {r \in AllRefs : log[k].scores[r] = MaxScore(k, AllRefs)}
FirstBest(k) == MinOf(BestRefs(k))

\* C9 amended: the first pass scores a sample against every correct sample,
\* used or not; it assigns the sample exactly when the best score is at least
\* 50 and the first best-scoring correct sample is not used yet, to that
\* correct sample, whose 'order' is then marked used
C9_BestOfAll ==
    \A k \in Pass1Entries :
        /\ log[k].ref # 0 <=>
              /\ MaxScore(k, AllRefs) >= 50
              /\ FirstBest(k) \in UnusedAt(k)
        /\ log[k].ref # 0 => log[k].ref = FirstBest(k)
        /\ (k < Len(log) /\ log[k + 1].cat = log[k].cat) =>
              log[k + 1].used =
                 log[k].used \cup (IF log[k].ref # 0 THEN {RefOf(k).order} ELSE {})

\* C9 witness: the first pass has left a sample unassigned although an unused
\* correct sample scores at least 50 for it
C9_Witness ==
    \E k \in Pass1Entries :
        /\ log[k].ref = 0
        /\ UnusedAt(k) # {}
        /\ MaxScore(k, UnusedAt(k)) >= 50

\* the correct samples equally eligible at step k of the log: in the first pass
\* those with the best score, in the second the eligible unused ones
Tied(k) ==
    IF log[k].pass = 1
    THEN BestRefs(k)
    ELSE {r \in AllRefs : Pass2Eligible(SampleOf(k), r, log[k].used)}

\* C10 as claimed: among equally eligible correct samples the one of the
\* lowest 'order' is taken, whatever the order of the reference lines
C10_LowestRank ==
    \A k \in Hits : \A r \in Tied(k) : RefOf(k).order <= correct_samples[r].order

\* C10 amended: among equally eligible correct samples the one that comes
\* first in the reference list is taken
C10_FirstInList ==
    \A k \in Hits : log[k].ref \in Tied(k) /\ \A r \in Tied(k) : log[k].ref <= r

\* C10 witness: a step has taken a correct sample although an equally eligible
\* one, later in the list, has a lower 'order'
C10_Witness ==
    \E k \in Hits : \E r \in Tied(k) : r > log[k].ref /\ correct_samples[r].order < RefOf(k).order

-----------------------------------------------------------------------------
(* Properties of the normalizer, the parser and the ingestion *)

\* C6: normalizing a normalized surface gives it back
C6_Idempotent == pc = "renormalized" => out2 = out

\* C6 witness: a text other than the label 'КПП НД' was normalized to it by the
\* fourth mapping, and the label was normalized again
C6_Witness ==
    /\ pc = "renormalized"
    /\ out = <<"K","P","P"," ","N","D">>
    /\ text # out

\* C7 as claimed: for '<surface> n, <word> m' the parser returns the trailing
\* number m as 'number' and the leading text as 'surface', and a 'number' that
\* is present is always a digit string
C7_TrailingNumber ==
    pc = "parsed" =>
        /\ \A s \in Surfaces, n \in Numbers, m \in Numbers :
              text = PairName(s, n, m) => out.number = m /\ out.surface = s
        /\ out.number # None => \A j \in 1..Len(out.number) : out.number[j] \in Digit

\* the line of the step is a sample row of the current category
RowCandidate ==
    /\ ~IsSteelLine(line)
    /\ ~IsSkipLine(line)
    /\ current_steel_grade # None
    /\ IsRowLine(line)
Appended == Len(current_table') > Len(current_table)

-----------------------------------------------------------------------------
(* Properties of the second pass *)

\* the steps of the second loop that took a correct sample
Pass2Hits == {k \in Hits : log[k].pass = 2}

\* the sample of step k had been given a correct sample by an earlier step
TakenBefore(k) ==
    \E j \in 1..(k - 1) : log[j].cat = log[k].cat /\ log[j].sample = log[k].sample /\ log[j].ref # 0

\* one canonical surface is a substring of the other
SurfaceSubstring(analysis_sample, correct_sample) ==
    \/ Contains(normalize_surface_name(correct_sample.parsed.surface),
                normalize_surface_name(analysis_sample.parsed.surface))
    \/ Contains(normalize_surface_name(analysis_sample.parsed.surface),
                normalize_surface_name(correct_sample.parsed.surface))

\* every match of the second pass pairs a sample not taken before with a correct
\* sample not used before
C11_PairsFree ==
    \A k \in Pass2Hits : ~TakenBefore(k) /\ RefOf(k).order \notin log[k].used

\* every match of the second pass rests on a substring relation of the canonical
\* surfaces and on a substring relation of two present numbers
C11_SubstringBoth ==
    \A k \in Pass2Hits :
        /\ SurfaceSubstring(SampleOf(k), RefOf(k))
        /\ number_match(SampleOf(k).parsed.number, RefOf(k).parsed.number)

\* every sample the first pass left without a correct sample is tried against
\* the correct samples in the second pass
C11_Retried ==
    pc \in {"sort", "returned"} =>
        \A k \in Pass1Entries :
            log[k].ref = 0 =>
                \E j \in 1..Len(log) :
                    /\ log[j].pass = 2
                    /\ log[j].sample = log[k].sample
                    /\ ~log[j].skipped

\* C11 as claimed: every assignment of the second pass pairs a still-unassigned
\* sample with an unused correct sample, one canonical surface being a substring
\* of the other and both numbers present with one a substring of the other, and
\* every sample left unassigned by the first pass is retried in the second
C11_Pass2Eligibility == C11_PairsFree /\ C11_SubstringBoth /\ C11_Retried

-----------------------------------------------------------------------------
(* Properties of main's tables *)

\* the steps of the log that took a correct sample for category c
MatchesOf(c) == {k \in Hits : log[k].cat = c}

\* the entries of final_tables under the steel grade of category c
TablesOf(c) ==
    {t \in 1..Len(final_tables) : final_tables[t].grade = chemical_tables[c].grade}

\* row a of the table is the match of category c with a - 1 matches of lower
\* order before it, and it carries that match's name and measurements
RowInOrder(c, rows, a) ==
    \E k \in MatchesOf(c) :
        /\ Cardinality({j \in MatchesOf(c) : RefOf(j).order < RefOf(k).order}) = a - 1
        /\ rows[a].name = RefOf(k).correct_name
        /\ rows[a].measurements = SampleOf(k).measurements

\* every table that is built holds one row per match result of its category, in
\* the order of the 'order' values, numbered 1..N
BuiltTablesComplete ==
    \A c \in 1..Len(chemical_tables) :
        \A t \in TablesOf(c) :
            /\ Len(final_tables[t].rows) = Cardinality(MatchesOf(c))
            /\ \A a \in 1..Len(final_tables[t].rows) :
                  /\ final_tables[t].rows[a].no = a
                  /\ RowInOrder(c, final_tables[t].rows, a)

\* C12 as claimed: when main's loop is over, every category with a match result
\* has one table, every category without has none, and the table of a category
\* holds one row per match result of the category, in the order of the 'order'
\* values, numbered 1..N
C12_TablePerMatchedCategory ==
    pc = "done" =>
        /\ BuiltTablesComplete
        /\ \A c \in 1..Len(chemical_tables) :
              Cardinality(TablesOf(c)) = (IF MatchesOf(c) = {} THEN 0 ELSE 1)

-----------------------------------------------------------------------------
(* Properties of the ingestion as a whole *)

\* the steel grade that is current when line k of the text is read: the one of
\* the last 'Марка стали' line before it, None when there is none
RECURSIVE LabelAt(_)
LabelAt(k) ==
    IF k <= 1 THEN None
    ELSE IF IsSteelLine(Strip(lines[k - 1]))
         THEN SteelGrade(Strip(lines[k - 1]), Search(steel_pattern, Strip(lines[k - 1]), FALSE))
         ELSE LabelAt(k - 1)

\* line k is a data row the parser accepts while a steel grade is current
AcceptedAt(k) ==
    /\ ~IsSteelLine(Strip(lines[k]))
    /\ ~IsSkipLine(Strip(lines[k]))
    /\ IsRowLine(Strip(lines[k]))
    /\ HasName(SplitWide(Strip(lines[k])))
    /\ LabelAt(k) # None

\* the accepted rows among the first k lines that stand under steel grade g, in
\* the order of the text
RECURSIVE RowsUnder(_, _)
RowsUnder(g, k) ==
    IF k = 0 THEN <<>>
    ELSE IF AcceptedAt(k) /\ LabelAt(k) = g
         THEN Append(RowsUnder(g, k - 1), RowOf(SplitWide(Strip(lines[k]))))
         ELSE RowsUnder(g, k - 1)

\* the steel grades the text names
Labels == {LabelAt(k) : k \in 2..(Len(lines) + 1)} \ {None}

\* the entries of the returned dict under steel grade g
EntriesOf(g) == {t \in 1..Len(tables) : tables[t].grade = g}

\* C13 as claimed: when parse_chemical_tables_improved returns, the table of
\* every steel grade holds the accepted rows that stood under that grade, each
\* once and in the order of the text, also when the grade introduces more than
\* one block; a grade without accepted rows has no table
C13_RowsPreserved ==
    pc = "ingested" =>
        \A g \in Labels :
            /\ Cardinality(EntriesOf(g)) = (IF RowsUnder(g, Len(lines)) = <<>> THEN 0 ELSE 1)
            /\ \A t \in EntriesOf(g) : tables[t].samples = RowsUnder(g, Len(lines))

====
